---- MODULE Spec2Model ----
(***************************************************************************)
(* k-nearest-neighbours classifier of src/src/main.rs.                     *)
(*                                                                         *)
(* Numbers: a feature is a small natural or NaN.  An f64 distance is held  *)
(* as a fixed-point value with Escala units per 1.0 (the root truncated),  *)
(* which orders and separates the roots of the radicands in range exactly  *)
(* as the f64 roots do, or it is NaN.  NaN propagates through the          *)
(* arithmetic of distancia_euclidiana; comparing a NaN distance makes      *)
(* partial_cmp return None and the unwrap() of Vizinho::cmp panic, which   *)
(* ends knn.                                                               *)
(*                                                                         *)
(* The HashMap hasher is randomly seeded: into_iter() may surface the      *)
(* entries of the tally in any order, and a different one in every call.   *)
(***************************************************************************)
EXTENDS Integers, Sequences, FiniteSets, TLC

\* ---------------------------------------------------------------- bounds
MaxN == 3          \* largest training set
MaxCoord == 2      \* feature values are 0..MaxCoord
MaxDim == 2        \* longest feature vector handed to distancia_euclidiana
Escala == 100      \* fixed-point units per 1.0 of an f64 distance
MaxK == MaxN + 1   \* k ranges over 0..MaxK, so k > N happens for every N

Rotulos == {"A", "B"}

VARIABLES
    treinamento,         \* the caller's training set (knn's &[Ponto])
    ponto_teste,         \* the query point of the current call
    k,                   \* the k of the current call
    pc,                  \* position in knn / distancia_euclidiana
    it,                  \* position of the loop that is running
    distancia,           \* last value returned by distancia_euclidiana
    heap,                \* BinaryHeap<Vizinho>, as its backing vector
    k_vizinhos_rotulos,  \* labels of the popped neighbours
    dist_extraidas,      \* distances of the popped neighbours, in pop order
    contador_rotulos,    \* HashMap label -> count
    ordem,               \* order in which into_iter() surfaced the entries
    retorno,             \* how the call ended
    anterior             \* outcome of the preceding call, if it had the same arguments

vars == <<treinamento, ponto_teste, k, pc, it, distancia, heap,
          k_vizinhos_rotulos, dist_extraidas, contador_rotulos, ordem,
          retorno, anterior>>

\* ---------------------------------------------------------------- values
Ponto(caracteristicas, rotulo) ==
    [caracteristicas |-> caracteristicas, rotulo |-> rotulo]

Vizinho(d, rotulo) == [distancia |-> d, rotulo |-> rotulo]

None == [some |-> FALSE]
Some(v) == [some |-> TRUE, v |-> v]

Nenhum == [tipo |-> "nenhum"]
Panic == [tipo |-> "panic"]
RetRotulo(r) == [tipo |-> "rotulo", rotulo |-> r]
RetDist(d) == [tipo |-> "valor", valor |-> d]

Min(a, b) == IF a <= b THEN a ELSE b

\* ---------------------------------------------------------------- f64
\* f64::NAN; every other value is a natural, so this one is free
NaN == 0 - 1

IsNaN(x) == x = NaN

\* (a - b).powi(2)
QuadDif(a, b) == IF IsNaN(a) \/ IsNaN(b) THEN NaN ELSE (a - b) * (a - b)

\* f64 addition
SomaF64(x, y) == IF IsNaN(x) \/ IsNaN(y) THEN NaN ELSE x + y

\* f64::partial_cmp
PartialCmpF64(a, b) ==
    IF IsNaN(a) \/ IsNaN(b) THEN None
    ELSE Some(IF a < b THEN "Less" ELSE IF a > b THEN "Greater" ELSE "Equal")

\* ---------------------------------------------------------------- distance
RECURSIVE RaizBusca(_, _, _)
RaizBusca(n, lo, hi) ==
    IF lo >= hi THEN lo
    ELSE LET mid == (lo + hi + 1) \div 2
         IN IF mid * mid <= n THEN RaizBusca(n, mid, hi)
            ELSE RaizBusca(n, lo, mid - 1)

\* f64::sqrt, in fixed point
Sqrt(s) ==
    IF IsNaN(s) THEN NaN
    ELSE RaizBusca(s * Escala * Escala, 0, (s + 1) * Escala)

\* zip stops at the shorter of the two iterators
Zip(a, b) == [n \in 1..Min(Len(a), Len(b)) |-> <<a[n], b[n]>>]

RECURSIVE SomaQuadrados(_, _)
\* .map(|(a, b)| (a - b).powi(2)).sum::<f64>() over the first n pairs
SomaQuadrados(pares, n) ==
    IF n = 0 THEN 0
    ELSE SomaF64(SomaQuadrados(pares, n - 1), QuadDif(pares[n][1], pares[n][2]))

distancia_euclidiana(ponto1, ponto2) ==
    LET pares == Zip(ponto1.caracteristicas, ponto2.caracteristicas)
    IN Sqrt(SomaQuadrados(pares, Len(pares)))

\* ---------------------------------------------------------------- ordering
\* a max-heap order: the comparison is not inverted
CmpNaoInvertido(self, outro) ==
    LET o == PartialCmpF64(self.distancia, outro.distancia)
    IN IF o.some THEN o.v ELSE "Panic"

\* Vizinho::cmp: outro.distancia.partial_cmp(&self.distancia).unwrap()
Cmp(self, outro) ==
    LET o == PartialCmpF64(outro.distancia, self.distancia)
    IN IF o.some THEN o.v ELSE "Panic"

\* a <= b through PartialOrd::partial_cmp = Some(cmp): TRUE, FALSE or "Panic"
Le(a, b) ==
    LET c == Cmp(a, b)
    IN IF c = "Panic" THEN "Panic" ELSE IF c \in {"Less", "Equal"} THEN "T" ELSE "F"

\* ---------------------------------------------------------------- BinaryHeap
\* positions are 0-based as in the vector; d[p + 1] is the element at p
\* BinaryHeap::new()
HeapNew == <<>>

\* a heap operation that unwound from a panic in Vizinho::cmp
HeapPanic == [panic |-> TRUE]

HeapOk(d) == [panic |-> FALSE, d |-> d]

RECURSIVE SiftUp(_, _, _, _)
\* the hole is at pos and e is the element taken out of it
SiftUp(d, start, pos, e) ==
    IF pos > start
    THEN LET parent == (pos - 1) \div 2
             le == Le(e, d[parent + 1])
         IN IF le = "Panic" THEN HeapPanic
            ELSE IF le = "T" THEN HeapOk([d EXCEPT ![pos + 1] = e])
            ELSE SiftUp([d EXCEPT ![pos + 1] = d[parent + 1]], start, parent, e)
    ELSE HeapOk([d EXCEPT ![pos + 1] = e])

HeapPush(d, item) == SiftUp(Append(d, item), 0, Len(d), item)

RECURSIVE DescerBuraco(_, _, _)
\* the loop of sift_down_to_bottom: the hole goes down to the bottom along
\* the greater children; yields the vector and the final hole position
DescerBuraco(d, pos, end) ==
    LET child == 2 * pos + 1
    IN IF end >= 2 /\ child <= end - 2
       THEN LET le == Le(d[child + 1], d[child + 2])
                c == IF le = "T" THEN child + 1 ELSE child
            IN IF le = "Panic" THEN [panic |-> TRUE]
               ELSE DescerBuraco([d EXCEPT ![pos + 1] = d[c + 1]], c, end)
       ELSE IF child = end - 1
            THEN [panic |-> FALSE,
                  d |-> [d EXCEPT ![pos + 1] = d[child + 1]], pos |-> child]
            ELSE [panic |-> FALSE, d |-> d, pos |-> pos]

SiftDownToBottom(d, e) ==
    LET r == DescerBuraco(d, 0, Len(d))
    IN IF r.panic THEN HeapPanic ELSE SiftUp(r.d, 0, r.pos, e)

HeapPop(d) ==
    IF Len(d) = 0 THEN [panic |-> FALSE, item |-> None, heap |-> d]
    ELSE LET ultimo == d[Len(d)]
             resto == SubSeq(d, 1, Len(d) - 1)
         IN IF Len(resto) = 0
            THEN [panic |-> FALSE, item |-> Some(ultimo), heap |-> resto]
            ELSE LET r == SiftDownToBottom(resto, ultimo)
                 IN IF r.panic THEN [panic |-> TRUE]
                    ELSE [panic |-> FALSE, item |-> Some(resto[1]), heap |-> r.d]

\* ---------------------------------------------------------------- collecting
\* if let Some(vizinho) = heap.pop() { k_vizinhos_rotulos.push(vizinho.rotulo) }
Coletar(rs, item) ==
    IF item.some THEN Append(rs, item.v.rotulo) ELSE rs

\* ---------------------------------------------------------------- tally
\* HashMap::new()
MapaVazio == [r \in {} |-> 0]

\* *contador_rotulos.entry(rotulo).or_insert(0) += 1
EntryInc(c, rotulo) ==
    [r \in (DOMAIN c) \cup {rotulo} |->
        IF r = rotulo
        THEN (IF rotulo \in DOMAIN c THEN c[rotulo] ELSE 0) + 1
        ELSE c[r]]

\* the orders in which a HashMap can surface its keys: the order follows from
\* the hasher keys, which std draws at random once per thread and advances at
\* every HashMap::new(), so each call's map may have any order
Ordens(c) ==
    {s \in [1..Cardinality(DOMAIN c) -> DOMAIN c] :
        \A a, b \in DOMAIN s : a # b => s[a] # s[b]}

RECURSIVE PrimeiroMax(_, _, _, _)
\* keeps the first of several equally maximal entries
PrimeiroMax(s, c, n, best) ==
    IF n > Len(s) THEN best
    ELSE PrimeiroMax(s, c, n + 1,
            IF (~best.some) \/ c[s[n]] > c[best.v] THEN Some(s[n]) ELSE best)

MaxByKeyPrimeiro(s, c) == PrimeiroMax(s, c, 1, None)

RECURSIVE MaxFold(_, _, _, _)
\* Iterator::max_by_key folds with "keep the accumulator only when it is
\* strictly greater", so the last of several maximal entries wins
MaxFold(s, c, n, best) ==
    IF n > Len(s) THEN best
    ELSE MaxFold(s, c, n + 1,
            IF best.some /\ c[best.v] > c[s[n]] THEN best ELSE Some(s[n]))

MaxByKey(s, c) == MaxFold(s, c, 1, None)

\* .map(|(rotulo, _)| rotulo).unwrap()
Unwrap(opt) == IF opt.some THEN RetRotulo(opt.v) ELSE Panic

\* ---------------------------------------------------------------- inputs
Coords == 0..MaxCoord

\* the feature values: the finite ones and NaN
Valores == Coords \cup {NaN}

Vetores(n) == [1..n -> Valores]

VetoresAte(n) == UNION {Vetores(m) : m \in 0..n}

PontosTreino == {Ponto(v, r) : v \in Vetores(1), r \in Rotulos}

\* the test point at the origin, so that the distances to the finite
\* training points take every value in Coords, and the NaN test point
PontosTeste ==
    {Ponto([n \in 1..1 |-> c], "Desconhecido") : c \in {0, NaN}}

Treinamentos == UNION {[1..n -> PontosTreino] : n \in 0..MaxN}

\* ---------------------------------------------------------------- knn
Init ==
    /\ treinamento \in Treinamentos
    /\ ponto_teste = Ponto(<<0>>, "Desconhecido")
    /\ k = 0
    /\ pc = "idle"
    /\ it = 0
    /\ distancia = Nenhum
    /\ heap = <<>>
    /\ k_vizinhos_rotulos = <<>>
    /\ dist_extraidas = <<>>
    /\ contador_rotulos = MapaVazio
    /\ ordem = <<>>
    /\ retorno = Nenhum
    /\ anterior = Nenhum

\* the caller invokes knn(&treinamento, &q, kk); the heap is created
Chamar(q, kk) ==
    /\ pc \in {"idle", "done"}
    /\ anterior' = IF pc = "done" /\ q = ponto_teste /\ kk = k
                   THEN [tipo |-> "chamada", retorno |-> retorno,
                         contador |-> contador_rotulos,
                         treinamento |-> treinamento, ponto_teste |-> ponto_teste]
                   ELSE Nenhum
    /\ ponto_teste' = q
    /\ k' = kk
    /\ heap' = HeapNew
    /\ pc' = "push"
    /\ it' = 0
    /\ distancia' = Nenhum
    /\ k_vizinhos_rotulos' = <<>>
    /\ dist_extraidas' = <<>>
    /\ contador_rotulos' = MapaVazio
    /\ ordem' = <<>>
    /\ retorno' = Nenhum
    /\ UNCHANGED treinamento

\* one iteration of "for ponto_treinamento in treinamento"; a panic in
\* Vizinho::cmp under heap.push unwinds out of knn
Push ==
    /\ pc = "push"
    /\ it < Len(treinamento)
    /\ LET ponto_treinamento == treinamento[it + 1]
           d == distancia_euclidiana(ponto_teste, ponto_treinamento)
           r == HeapPush(heap, Vizinho(d, ponto_treinamento.rotulo))
       IN /\ distancia' = RetDist(d)
          /\ IF r.panic
             THEN /\ pc' = "done"
                  /\ retorno' = Panic
                  /\ UNCHANGED <<heap, it>>
             ELSE /\ heap' = r.d
                  /\ it' = it + 1
                  /\ UNCHANGED <<pc, retorno>>
    /\ UNCHANGED <<treinamento, ponto_teste, k, k_vizinhos_rotulos,
                   dist_extraidas, contador_rotulos, ordem, anterior>>

\* the push loop is over; let mut k_vizinhos_rotulos = Vec::new()
FimPush ==
    /\ pc = "push"
    /\ it = Len(treinamento)
    /\ pc' = "pop"
    /\ it' = 0
    /\ k_vizinhos_rotulos' = <<>>
    /\ UNCHANGED <<treinamento, ponto_teste, k, distancia, heap,
                   dist_extraidas, contador_rotulos, ordem, retorno, anterior>>

\* one iteration of "for _ in 0..k"; a panic in Vizinho::cmp under heap.pop
\* unwinds out of knn
Pop ==
    /\ pc = "pop"
    /\ it < k
    /\ LET r == HeapPop(heap)
       IN IF r.panic
          THEN /\ pc' = "done"
               /\ retorno' = Panic
               /\ UNCHANGED <<heap, it, k_vizinhos_rotulos, dist_extraidas>>
          ELSE /\ heap' = r.heap
               /\ k_vizinhos_rotulos' = Coletar(k_vizinhos_rotulos, r.item)
               /\ dist_extraidas' = IF r.item.some
                                    THEN Append(dist_extraidas, r.item.v.distancia)
                                    ELSE dist_extraidas
               /\ it' = it + 1
               /\ UNCHANGED <<pc, retorno>>
    /\ UNCHANGED <<treinamento, ponto_teste, k, distancia,
                   contador_rotulos, ordem, anterior>>

\* the pop loop is over; let mut contador_rotulos = HashMap::new()
FimPop ==
    /\ pc = "pop"
    /\ it = k
    /\ pc' = "contar"
    /\ it' = 0
    /\ contador_rotulos' = MapaVazio
    /\ UNCHANGED <<treinamento, ponto_teste, k, distancia, heap,
                   k_vizinhos_rotulos, dist_extraidas, ordem, retorno, anterior>>

\* one iteration of "for rotulo in k_vizinhos_rotulos"
Contar ==
    /\ pc = "contar"
    /\ it < Len(k_vizinhos_rotulos)
    /\ contador_rotulos' = EntryInc(contador_rotulos, k_vizinhos_rotulos[it + 1])
    /\ it' = it + 1
    /\ UNCHANGED <<treinamento, ponto_teste, k, pc, distancia, heap,
                   k_vizinhos_rotulos, dist_extraidas, ordem, retorno, anterior>>

\* contador_rotulos.into_iter().max_by_key(..).map(..).unwrap()
Escolher ==
    /\ pc = "contar"
    /\ it = Len(k_vizinhos_rotulos)
    /\ \E o \in Ordens(contador_rotulos) :
          /\ ordem' = o
          /\ retorno' = Unwrap(MaxByKey(o, contador_rotulos))
    /\ pc' = "done"
    /\ UNCHANGED <<treinamento, ponto_teste, k, it, distancia, heap,
                   k_vizinhos_rotulos, dist_extraidas, contador_rotulos, anterior>>

Next ==
    \/ \E q \in PontosTeste, kk \in 0..MaxK : Chamar(q, kk)
    \/ Push
    \/ FimPush
    \/ Pop
    \/ FimPop
    \/ Contar
    \/ Escolher

Spec == Init /\ [][Next]_vars

\* ---------------------------------------------------------------- distance alone
InitDist ==
    /\ treinamento \in {<<Ponto(v, "A")>> : v \in VetoresAte(MaxDim)}
    /\ ponto_teste \in {Ponto(v, "Desconhecido") : v \in VetoresAte(MaxDim)}
    /\ k = 0
    /\ pc = "dist"
    /\ it = 0
    /\ distancia = Nenhum
    /\ heap = <<>>
    /\ k_vizinhos_rotulos = <<>>
    /\ dist_extraidas = <<>>
    /\ contador_rotulos = MapaVazio
    /\ ordem = <<>>
    /\ retorno = Nenhum
    /\ anterior = Nenhum

\* distancia_euclidiana(&ponto_teste, &treinamento[0]) returns
Distancia ==
    /\ pc = "dist"
    /\ distancia' = RetDist(distancia_euclidiana(ponto_teste, treinamento[1]))
    /\ pc' = "dist_done"
    /\ UNCHANGED <<treinamento, ponto_teste, k, it, heap, k_vizinhos_rotulos,
                   dist_extraidas, contador_rotulos, ordem, retorno, anterior>>

NextDist == Distancia

SpecDist == InitDist /\ [][NextDist]_vars

\* ---------------------------------------------------------------- properties
N == Len(treinamento)

\* distance from the query to the n-th training point
DistDe(n) == distancia_euclidiana(ponto_teste, treinamento[n])

\* the N distances, in training-set order
Dists == [n \in 1..N |-> DistDe(n)]

NaoNaN(d) == ~IsNaN(d)

\* no distance of this call is NaN
SemNaN == \A n \in 1..N : NaoNaN(DistDe(n))

\* the distances that are numbers, ascending
DistsOrdenadas == SortSeq(SelectSeq(Dists, NaoNaN), LAMBDA a, b : a < b)

\* a <= b on f64: false when either is NaN
F64Le(a, b) == NaoNaN(a) /\ NaoNaN(b) /\ a <= b

\* a < b on f64: false when either is NaN
F64Lt(a, b) == NaoNaN(a) /\ NaoNaN(b) /\ a < b

\* label histogram of the whole training set
Histograma ==
    [r \in {treinamento[n].rotulo : n \in 1..N} |->
        Cardinality({n \in 1..N : treinamento[n].rotulo = r})]

\* the labels of maximal count in a tally
MaisVotados(c) == {r \in DOMAIN c : \A r2 \in DOMAIN c : c[r2] <= c[r]}

\* positions of ordem holding a label of maximal count
PosEmpatadas ==
    {n \in 1..Len(ordem) : ordem[n] \in MaisVotados(contador_rotulos)}

Empate == Cardinality(MaisVotados(contador_rotulos)) >= 2

\* number of points among the set viz that carry label r
Votos(viz, r) == Cardinality({n \in viz : treinamento[n].rotulo = r})

\* r has strictly more points in viz than every other label
MaioriaClara(viz, r) ==
    \A r2 \in Rotulos \ {r} : Votos(viz, r) > Votos(viz, r2)

\* the m nearest points are determined: they are all the points, or the m-th
\* smallest distance is a number strictly below the next one (a NaN distance
\* is never among the smallest)
SemEmpateNaFronteira(ds, m) ==
    \/ m = N
    \/ m = Len(ds)
    \/ m < Len(ds) /\ ds[m] < ds[m + 1]

\* the m nearest points, when they are determined
MaisProximos(ds, m) ==
    IF m = N THEN 1..N
    ELSE {n \in 1..N : F64Le(DistDe(n), ds[m])}

\* C1: with a non-empty training set and k >= 1, when the min(k, N) nearest
\* points are unambiguous and one label has strictly more of them than every
\* other label, knn returns that label.
C1_MajorityLabel ==
    (pc = "done" /\ N >= 1 /\ k >= 1)
        => LET m == Min(k, N)
               ds == DistsOrdenadas
               viz == MaisProximos(ds, m)
           IN SemEmpateNaFronteira(ds, m)
                 => \A r \in Rotulos :
                       MaioriaClara(viz, r) => retorno = RetRotulo(r)

\* The property of C1 on the calls in which no distance is NaN.
MajorityLabelSemNaN == SemNaN => C1_MajorityLabel

\* n is the one training point at the minimum distance: its distance is a
\* number and every other distance is a greater number or NaN
UnicoMaisProximo(n) ==
    /\ NaoNaN(DistDe(n))
    /\ \A m \in (1..N) \ {n} : IsNaN(DistDe(m)) \/ DistDe(n) < DistDe(m)

\* C2: with k = 1 and exactly one training point at the minimum distance,
\* knn returns the label of that point, wherever it stands in the training set.
C2_NearestLabel ==
    (pc = "done" /\ k = 1 /\ N >= 1)
        => \A n \in 1..N :
              UnicoMaisProximo(n) => retorno = RetRotulo(treinamento[n].rotulo)

\* The property of C2 on the calls in which no distance is NaN.
NearestLabelSemNaN == SemNaN => C2_NearestLabel

\* C3: with a non-empty training set and k >= N (in particular k > N), knn
\* selects exactly the N training points, its tally is the label histogram of
\* the training set (the same for every such k), and it returns one of the
\* labels of maximal count of that histogram.
C3_KClamped ==
    (pc = "done" /\ N >= 1 /\ k >= N)
        => /\ Len(k_vizinhos_rotulos) = N
           /\ heap = <<>>
           /\ contador_rotulos = Histograma
           /\ retorno.tipo = "rotulo"
           /\ retorno.rotulo \in MaisVotados(Histograma)

\* The property of C3 on the calls in which no distance is NaN.
KClampedSemNaN == SemNaN => C3_KClamped

\* C4: knn on an empty training set with k >= 1 ends in an EmptyTrainingSet
\* error value; it neither panics nor returns a label.
C4_EmptyTrainingSetError ==
    (pc = "done" /\ N = 0 /\ k >= 1)
        => retorno = [tipo |-> "erro", erro |-> "EmptyTrainingSet"]

\* C5: distancia_euclidiana on feature vectors of different lengths fails; it
\* never returns a distance.
C5_DimensionMismatchFails ==
    (pc = "dist_done"
        /\ Len(ponto_teste.caracteristicas) # Len(treinamento[1].caracteristicas))
        => distancia.tipo # "valor"

\* C6: a call of knn with the same training set, query and k as the call
\* before it returns the same label.
C6_SameInputsSameLabel ==
    (pc = "done" /\ anterior.tipo = "chamada") => retorno = anterior.retorno

\* C7: knn with k = 0 on a non-empty training set ends in an InvalidK error
\* value; it neither panics nor returns a label.
C7_InvalidKError ==
    (pc = "done" /\ k = 0 /\ N >= 1)
        => retorno = [tipo |-> "erro", erro |-> "InvalidK"]

\* every call starts with an empty heap, label list and tally
LocaisNovos ==
    (pc = "push" /\ it = 0)
        => /\ heap = <<>>
           /\ k_vizinhos_rotulos = <<>>
           /\ DOMAIN contador_rotulos = {}

\* C8: a call of knn that follows a call with the same query and k finds the
\* training set as that call found it, starts with an empty heap, label list
\* and tally, leaves its query as it was, and ends with the same result as that
\* call: the result depends on the arguments alone.
C8_FrameAndStateless ==
    /\ anterior.tipo = "chamada" => treinamento = anterior.treinamento
    /\ LocaisNovos
    /\ (pc = "done" /\ anterior.tipo = "chamada")
          => /\ ponto_teste = anterior.ponto_teste
             /\ retorno = anterior.retorno

KnnPasso ==
    /\ treinamento' = treinamento
    /\ pc \notin {"idle", "done"} => (ponto_teste' = ponto_teste /\ k' = k)

KnnEstado ==
    /\ LocaisNovos
    /\ (pc = "done" /\ anterior.tipo = "chamada")
          => /\ contador_rotulos = anterior.contador
             /\ retorno.tipo = anterior.retorno.tipo

\* The part of C8 that holds: no step of knn changes the training set, and
\* none changes the query or k of the running call; every call starts with
\* empty locals, and a repeated call ends with the same tally as the call
\* before it, and panics exactly when that call did.
FrameAndFreshLocals == [][KnnPasso]_vars /\ []KnnEstado

\* a sequence of f64 in a canonical arrangement: two sequences hold the same
\* values, each as often, exactly when their arrangements are equal
Arranjo(s) == SortSeq(s, LAMBDA a, b : a < b)

\* C9: once all N candidates are pushed, after `it` iterations of the pop loop
\* (the last one included) min(it, N) candidates are extracted, the extracted
\* distances are in non-decreasing order, every extracted distance is <= every
\* distance left in the heap, and the extracted distances together with those
\* left in the heap are the N distances, each as often.
C9_PopsAscending ==
    pc = "pop"
        => LET hs == [h \in 1..Len(heap) |-> heap[h].distancia]
           IN /\ Len(dist_extraidas) = Min(it, N)
              /\ Len(heap) = N - Len(dist_extraidas)
              /\ \A e \in 1..(Len(dist_extraidas) - 1) :
                    F64Le(dist_extraidas[e], dist_extraidas[e + 1])
              /\ \A e \in 1..Len(dist_extraidas), h \in 1..Len(heap) :
                    F64Le(dist_extraidas[e], hs[h])
              /\ Arranjo(dist_extraidas \o hs) = Arranjo(Dists)

C9_Witness ==
    /\ pc = "pop" /\ it = 2 /\ N = 3 /\ Len(heap) = 1
    /\ F64Lt(DistDe(2), DistDe(1)) /\ F64Lt(DistDe(3), DistDe(2))
    /\ dist_extraidas = <<DistDe(3), DistDe(2)>>

\* C10 as stated: when several labels share the maximum count, knn returns
\* the first of them in the iteration order of the tally.
C10_FirstOfTied ==
    (pc = "done" /\ retorno.tipo = "rotulo" /\ Empate)
        => \A n \in PosEmpatadas :
              (\A m \in PosEmpatadas : n <= m) => retorno = RetRotulo(ordem[n])

\* C10 amended: when several labels share the maximum count, knn returns the
\* last of them in the iteration order of the tally.
C10_LastOfTied ==
    (pc = "done" /\ retorno.tipo = "rotulo" /\ Empate)
        => \A n \in PosEmpatadas :
              (\A m \in PosEmpatadas : m <= n) => retorno = RetRotulo(ordem[n])

C10_Witness ==
    /\ pc = "done" /\ Empate /\ Len(ordem) >= 2
    /\ ordem[Len(ordem)] \in MaisVotados(contador_rotulos)
    /\ ordem[1] \in MaisVotados(contador_rotulos)
    /\ retorno = RetRotulo(ordem[Len(ordem)])

====
